---- MODULE Spec2Model ----
(***************************************************************************)
(* Darts Atlas "yesterday-only 85+ averages" scrapers.                     *)
(*                                                                         *)
(*   run_scrapers.py : document-order listing scan, tournament scraper,    *)
(*                     report writer, multi-region main with one email.    *)
(*   yorkshire.py    : proximity (enclosing card) listing scan, report     *)
(*                     writer and single-region main.                      *)
(*                                                                         *)
(* Dates are day ordinals.  An optional value is <<>> (None) or <<v>>.     *)
(* Texts, titles and URLs are sequences of strings.                        *)
(***************************************************************************)
EXTENDS Integers, Sequences, FiniteSets, TLC

VARIABLES
    page,      \* the rendered listing page: a sequence of tournament cards
    doc,       \* run_scrapers.collect_yesterday_tournaments: its locals
    prox,      \* yorkshire.collect_yesterday_tournaments: its locals
    run,       \* run_scrapers.main: its position and locals
    york,      \* yorkshire.main: its position and locals
    fs,        \* the report files on disk: path -> None or Some(lines)
    written,   \* the write_report calls of this run: <<path, lines>>
    fetched,   \* the pages requested in this run: <<region, kind>>
    failedAt,  \* the region whose fetch met a transport failure, 0 if none
    emails,    \* the messages handed to SMTP in this run
    supply,    \* the row lists handed to the report writer, one per call
    outputs,   \* what the report writer wrote, one file per call
    writer     \* which write_report is exercised

scanVars == <<page, doc, prox>>
mainVars == <<run, york, fs, written, fetched, failedAt, emails>>
reportVars == <<supply, outputs, writer>>
vars == <<page, doc, prox, run, york, fs, written, fetched, failedAt, emails,
          supply, outputs, writer>>

-----------------------------------------------------------------------------
(* Bounds of the model                                                     *)

\* the day the run happens on (london_today()), as a day ordinal
Today == 2
\* cards on a listing page scanned by the document-order strategy alone
MaxCards == 4
\* cards on a listing page scanned by the proximity strategy alone
MaxAnchors == 2
\* cards on a listing page scanned by both strategies
MaxListing == 3
\* rows handed to one write_report call
MaxRows == 3
\* region configs found by load_region_configs
NumRegions == 3

-----------------------------------------------------------------------------
(* Values                                                                  *)

None == <<>>
Some(v) == <<v>>

Yesterday == Today - 1

\* older than the target day, the target day, today, later than today
Dates == {Today - 2, Today - 1, Today, Today + 1}
OptDates == {None} \cup {Some(d) : d \in Dates}

RESERVED_SLUGS == {"schedule", "results", "groups", "matches", "tournaments"}

BaseUrl == <<"https://www.dartsatlas.com">>

\* range(25) in find_card_with_date
MaxLevels == 25

\* the <a> elements of the modelled listings: path segments and visible text
TitledA == [href |-> <<"tournaments", "a1">>, text |-> <<"Open", "A">>]
BareA == [href |-> <<"tournaments", "a1">>, text |-> <<>>]
BareB == [href |-> <<"tournaments", "b2">>, text |-> <<>>]
ResultsTab == [href |-> <<"tournaments", "results">>, text |-> <<"Results">>]

Links == {TitledA, BareA, BareB, ResultsTab}

\* A card: an optional date line, then a link.  levels is the number of
\* parent steps from the link up to the card element that holds the date line.
Cards(dateSet, linkSet, levelSet) ==
    [date : dateSet, link : linkSet, levels : levelSet]

SeqsUpTo(S, n) == UNION {[1..k -> S] : k \in 0..n}

\* The page in document order: for each card its date line (a text node),
\* when it has one, and then its <a> element.
TextNode(d) == [kind |-> "text", dates |-> <<d>>]
AnchorNode(c) ==
    [kind |-> "a", href |-> c.link.href, text |-> c.link.text,
     card |-> c.date, levels |-> c.levels]

RECURSIVE Nodes(_)
Nodes(cards) ==
    IF cards = <<>> THEN <<>>
    ELSE LET c == Head(cards) IN
         (IF c.date = None THEN <<>> ELSE <<TextNode(c.date[1])>>)
         \o <<AnchorNode(c)>> \o Nodes(Tail(cards))

IsAnchor(n) == n.kind = "a"
\* driver.find_elements(By.CSS_SELECTOR, "a[href^='/tournaments/']")
Anchors(cards) == SelectSeq(Nodes(cards), IsAnchor)

-----------------------------------------------------------------------------
(* Date Extractor and Link Classifier                                      *)

\* DATE_RE.search: the first date token of the text, if any
parse_date(node) ==
    IF node.dates = <<>> THEN None ELSE Some(Head(node.dates))

is_valid_tournament_path(path) ==
    /\ Len(path) = 2
    /\ path[1] = "tournaments"
    /\ path[2] \notin RESERVED_SLUGS

full_url(path) == BaseUrl \o path

-----------------------------------------------------------------------------
(* Document-order strategy (run_scrapers.py)                               *)

DocStart ==
    [pc |-> "loop", i |-> 1, current_date |-> None, found_yesterday |-> FALSE,
     seen |-> {}, results |-> <<>>]

Idle == [pc |-> "idle"]

\* "if current_date < yesterday and found_yesterday: break"
DocStopsAnyOlder(d, found) == d < Yesterday
DocStops(d, found) == d < Yesterday /\ found

\* title = anchor text, or the URL when the text is empty
DocTitle(a) == IF a.text = <<>> THEN full_url(a.href) ELSE a.text

\* "if current_date == yesterday:"
DocKeepsFromTarget(d) == d >= Yesterday
DocKeeps(d) == d = Yesterday

\* the block under "if current_date == yesterday:", s.i already advanced
DocCollectNoDedup(s, a) ==
    [s EXCEPT !.found_yesterday = TRUE,
              !.seen = @ \cup {full_url(a.href)},
              !.results = Append(@, <<DocTitle(a), full_url(a.href)>>)]
DocCollect(s, a) ==
    LET url == full_url(a.href)
    IN  IF url \in s.seen
        THEN [s EXCEPT !.found_yesterday = TRUE]
        ELSE [s EXCEPT !.found_yesterday = TRUE,
                       !.seen = @ \cup {url},
                       !.results = Append(@, <<DocTitle(a), url>>)]

\* the body of the for loop for one <a> element
DocAnchor(s, a) ==
    LET next == [s EXCEPT !.i = @ + 1]
    IN  IF ~is_valid_tournament_path(a.href) THEN next
        ELSE IF s.current_date = None THEN next
        ELSE IF s.current_date[1] = Today THEN next
        ELSE IF DocStops(s.current_date[1], s.found_yesterday)
             THEN [s EXCEPT !.pc = "returned"]
        ELSE IF DocKeeps(s.current_date[1]) THEN DocCollect(next, a)
        ELSE next

\* the body of the for loop for one text node
DocText(s, n) ==
    LET d == parse_date(n)
    IN  [s EXCEPT !.i = @ + 1,
                  !.current_date = IF d # None THEN d ELSE @]

DocVisit(s, n) == IF IsAnchor(n) THEN DocAnchor(s, n) ELSE DocText(s, n)

\* one iteration of "for node in body.descendants"
DocStep ==
    /\ doc.pc = "loop"
    /\ doc.i <= Len(Nodes(page))
    /\ doc' = DocVisit(doc, Nodes(page)[doc.i])
    /\ UNCHANGED <<page, prox, mainVars, reportVars>>

\* the loop is exhausted: return results
DocReturn ==
    /\ doc.pc = "loop"
    /\ doc.i > Len(Nodes(page))
    /\ doc' = [doc EXCEPT !.pc = "returned"]
    /\ UNCHANGED <<page, prox, mainVars, reportVars>>

-----------------------------------------------------------------------------
(* Proximity strategy (yorkshire.py)                                       *)

ProxStart ==
    [pc |-> "loop", i |-> 1, found_yesterday |-> FALSE,
     seen |-> {}, results |-> <<>>, log |-> <<>>]

\* walk up at most 25 parents to the first element whose text holds a date
find_card_below_cap(a) ==
    IF a.levels < MaxLevels /\ a.card # None THEN a.card ELSE None
find_card_with_date(a) ==
    IF a.levels <= MaxLevels /\ a.card # None THEN a.card ELSE None

\* "if d < yesterday: break"
ProxStopsAfterMatch(d, found) == d < Yesterday /\ found
ProxStops(d, found) == d < Yesterday

\* "if d == yesterday:"
ProxKeeps(d) == d = Yesterday

\* title = anchor text, else the first card line that is no date, else the URL.
\* The card text holds the date line and the link text only.
ProxTitle(a) ==
    LET lines == IF a.text = <<>> THEN <<>> ELSE <<a.text>>
    IN  IF a.text # <<>> THEN a.text
        ELSE IF lines # <<>> THEN lines[1] ELSE full_url(a.href)

\* the block under "if d == yesterday:", s.i already advanced
ProxCollect(s, a) ==
    LET url == full_url(a.href)
    IN  IF url \in s.seen
        THEN [s EXCEPT !.found_yesterday = TRUE]
        ELSE [s EXCEPT !.found_yesterday = TRUE,
                       !.seen = @ \cup {url},
                       !.results = Append(@, <<ProxTitle(a), url>>)]

\* the body of "for a in anchors"
ProxAnchor(s, a) ==
    LET next == [s EXCEPT !.i = @ + 1]
        card == find_card_with_date(a)
    IN  IF ~is_valid_tournament_path(a.href) THEN next
        ELSE IF card = None
             THEN [s EXCEPT !.pc = "end", !.log = Append(@, "STOP_NO_DATE")]
        ELSE IF card[1] = Today THEN next
        ELSE IF ProxStops(card[1], s.found_yesterday)
             THEN [s EXCEPT !.pc = "end", !.log = Append(@, "STOP_OLDER")]
        ELSE IF ProxKeeps(card[1]) THEN ProxCollect(next, a)
        ELSE next

\* one iteration of "for a in anchors"
ProxStep ==
    /\ prox.pc = "loop"
    /\ prox.i <= Len(Anchors(page))
    /\ prox' = ProxAnchor(prox, Anchors(page)[prox.i])
    /\ UNCHANGED <<page, doc, mainVars, reportVars>>

\* the for loop is exhausted
ProxLoopEnd ==
    /\ prox.pc = "loop"
    /\ prox.i > Len(Anchors(page))
    /\ prox' = [prox EXCEPT !.pc = "end"]
    /\ UNCHANGED <<page, doc, mainVars, reportVars>>

\* after the loop: warn when no target-day card was met, return results
ProxReturn ==
    /\ prox.pc = "end"
    /\ prox' = [prox EXCEPT !.pc = "returned",
                            !.log = IF prox.found_yesterday THEN @
                                    ELSE Append(@, "WARN_NONE")]
    /\ UNCHANGED <<page, doc, mainVars, reportVars>>

-----------------------------------------------------------------------------
(* Specifications of the listing scans                                     *)

ScanIdle == page = <<>> /\ doc = Idle /\ prox = Idle

MainIdle ==
    /\ run = Idle /\ york = Idle
    /\ fs = <<>> /\ written = <<>> /\ fetched = {} /\ failedAt = 0
    /\ emails = <<>>

ReportIdle == supply = <<>> /\ outputs = <<>> /\ writer = "none"

InitDoc ==
    /\ page \in SeqsUpTo(Cards(OptDates \ {Some(Today + 1)},
                                Links \ {BareA}, {1}), MaxCards)
    /\ doc = DocStart
    /\ prox = Idle
    /\ MainIdle /\ ReportIdle

NextDoc == DocStep \/ DocReturn

SpecDoc == InitDoc /\ [][NextDoc]_vars

InitProx ==
    /\ page \in SeqsUpTo(Cards(OptDates, Links, {MaxLevels, MaxLevels + 1}),
                        MaxAnchors)
    /\ doc = Idle
    /\ prox = ProxStart
    /\ MainIdle /\ ReportIdle

NextProx == ProxStep \/ ProxLoopEnd \/ ProxReturn

SpecProx == InitProx /\ [][NextProx]_vars

InitBoth ==
    /\ page \in SeqsUpTo(Cards(OptDates, Links, {1}), MaxListing)
    /\ doc = DocStart
    /\ prox = ProxStart
    /\ MainIdle /\ ReportIdle

\* the document-order scan of the page, then the proximity scan of it
NextBoth ==
    \/ DocStep
    \/ DocReturn
    \/ doc.pc = "returned" /\ ProxStep
    \/ doc.pc = "returned" /\ ProxLoopEnd
    \/ doc.pc = "returned" /\ ProxReturn

SpecBoth == InitBoth /\ [][NextBoth]_vars

-----------------------------------------------------------------------------
(* Report Writer                                                           *)

\* averages are carried in hundredths: 8500 is 85.00
ToSet(seq) == {seq[i] : i \in 1..Len(seq)}
Front(seq) == SubSeq(seq, 1, Len(seq) - 1)
Last(seq) == seq[Len(seq)]

Header == <<"Value,Player,Tournament,Section">>

\* f"{avg:.2f}"
Fmt2(v) ==
    <<ToString(v \div 100), ".", ToString((v % 100) \div 10), ToString(v % 10)>>

\* f"{avg:.2f},{player},{tournament},{section}\n": a row is
\* <<avg, player, tournament, section>>, fields are joined unquoted
Line(r) == Fmt2(r[1]) \o <<",", r[2], ",">> \o r[3] \o <<",", r[4]>>

\* one step of the stable sort by value, descending: r goes after every row
\* already placed whose value is at least its own
InsertAsc(sorted, r) ==
    LET n == Cardinality({i \in 1..Len(sorted) : sorted[i][1] <= r[1]})
    IN  SubSeq(sorted, 1, n) \o <<r>> \o SubSeq(sorted, n + 1, Len(sorted))
InsertDesc(sorted, r) ==
    LET n == Cardinality({i \in 1..Len(sorted) : sorted[i][1] >= r[1]})
    IN  SubSeq(sorted, 1, n) \o <<r>> \o SubSeq(sorted, n + 1, Len(sorted))

\* sorted(uniq, key=value, reverse=True)
RECURSIVE SortDesc(_)
SortDesc(rows) ==
    IF rows = <<>> THEN <<>>
    ELSE InsertDesc(SortDesc(Front(rows)), Last(rows))

\* yorkshire: {key: r for r in rows}.values(), the keys in first-insertion order
KeepAll(rows) == rows
RECURSIVE Dedup(_)
Dedup(rows) ==
    IF rows = <<>> THEN <<>>
    ELSE LET d == Dedup(Front(rows))
         IN  IF Last(rows) \in ToSet(d) THEN d ELSE Append(d, Last(rows))

\* run_scrapers: iterating the set {(a, p, t, s) for ... in rows}; the order
\* is that of the hash table, any enumeration of the set
SetOrders(S) ==
    {f \in [1..Cardinality(S) -> S] :
        \A i, j \in 1..Cardinality(S) : i # j => f[i] # f[j]}

\* the lines written: the header, then one line per row
ReportFile(sorted_rows) ==
    <<Header>> \o [i \in 1..Len(sorted_rows) |-> Line(sorted_rows[i])]

\* run_scrapers.write_report: the files it may write for these rows
write_report_rs(rows) ==
    {ReportFile(SortDesc(uniq)) : uniq \in SetOrders(ToSet(rows))}

\* yorkshire.write_report: the file it writes for these rows
write_report_york(rows) == ReportFile(SortDesc(Dedup(rows)))

\* rows of the modelled reports
ReportRows ==
    {<<v, "Alice", TitledA.text, sec>> :
        v \in {8500, 8755, 9250}, sec \in {"matches", "groups"}}

WriteRS ==
    /\ writer = "run_scrapers"
    /\ Len(outputs) < Len(supply)
    /\ \E f \in write_report_rs(supply[Len(outputs) + 1]) :
          outputs' = Append(outputs, f)
    /\ UNCHANGED <<supply, writer, scanVars, mainVars>>

WriteYork ==
    /\ writer = "yorkshire"
    /\ Len(outputs) < Len(supply)
    /\ outputs' = Append(outputs, write_report_york(supply[Len(outputs) + 1]))
    /\ UNCHANGED <<supply, writer, scanVars, mainVars>>

\* the same row set handed to one writer twice, in any order, with repeats
InitReport ==
    /\ writer \in {"run_scrapers", "yorkshire"}
    /\ \E a \in SeqsUpTo(ReportRows, MaxRows) :
          \E b \in SeqsUpTo(ToSet(a), MaxRows) :
              /\ ToSet(b) = ToSet(a)
              /\ supply = <<a, b>>
    /\ outputs = <<>>
    /\ ScanIdle /\ MainIdle

NextReport == WriteRS \/ WriteYork

SpecReport == InitReport /\ [][NextReport]_vars

-----------------------------------------------------------------------------
(* Whole listing scans, as main calls them                                 *)

RECURSIVE DocScan(_, _)
DocScan(s, nodes) ==
    IF s.pc = "returned" \/ s.i > Len(nodes) THEN s.results
    ELSE DocScan(DocVisit(s, nodes[s.i]), nodes)

\* run_scrapers.collect_yesterday_tournaments on a fetched listing
collect_doc(cards) == DocScan(DocStart, Nodes(cards))

RECURSIVE ProxScan(_, _)
ProxScan(s, anchors) ==
    IF s.pc = "end" \/ s.i > Len(anchors) THEN s.results
    ELSE ProxScan(ProxAnchor(s, anchors[s.i]), anchors)

\* yorkshire.collect_yesterday_tournaments on a rendered listing
collect_prox(cards) == ProxScan(ProxStart, Anchors(cards))

-----------------------------------------------------------------------------
(* Average Extractor and Tournament Scraper                                *)

\* 85.0, in hundredths
THRESHOLD == 8500

\* a "Best of N <p1> <s1> <p2> <s2> <v1> Avg <v2> Avg" line of a page
HighLow == [p1 |-> "Alice", v1 |-> 9250, p2 |-> "Bob", v2 |-> 7710]
Edge == [p1 |-> "Alice", v1 |-> 8500, p2 |-> "Bob", v2 |-> 8499]

\* the texts of the modelled results and group pages: their match lines
AvgPages == {<<>>, <<HighLow>>, <<Edge>>}

\* the hrefs of the modelled groups index pages
GroupIndexPages == {<<>>, <<"/group/g1">>, <<"/group/g1", "/group/g1">>}

\* the listings the regions of run_scrapers serve: at most one tournament
RunListings ==
    SeqsUpTo(Cards({Some(Yesterday), Some(Today)}, {TitledA}, {1}), 1)

\* the listings yorkshire's season page shows: at most two tournaments
YorkListings ==
    SeqsUpTo(Cards({Some(Yesterday), Some(Today)}, {TitledA, BareB}, {1}), 2)

\* a response: the request raised (timeout, non-success status), or a body
Responses(bodies) ==
    {[ok |-> FALSE, body |-> <<>>]} \cup {[ok |-> TRUE, body |-> b] : b \in bodies}

\* two (player, average) pairs per match line, in order
RECURSIVE parse_player_avgs(_)
parse_player_avgs(text) ==
    IF text = <<>> THEN <<>>
    ELSE LET m == Head(text)
         IN  << <<m.p1, m.v1>>, <<m.p2, m.v2>> >> \o parse_player_avgs(Tail(text))

\* "if avg > THRESHOLD": the boundary left out
QualifiesAbove(avg) == avg > THRESHOLD

\* "if avg >= THRESHOLD"
Qualifies(avg) == avg >= THRESHOLD

\* for player, avg in pairs: if avg >= THRESHOLD: rows.append(...)
RECURSIVE KeepRows(_, _, _)
KeepRows(pairs, title, section) ==
    IF pairs = <<>> THEN <<>>
    ELSE (IF Qualifies(Head(pairs)[2])
          THEN << <<Head(pairs)[2], Head(pairs)[1], title, section>> >>
          ELSE <<>>)
         \o KeepRows(Tail(pairs), title, section)

\* the pairs the "for player, avg in ..." loops of scrape_tournament have
\* iterated over, each with the title and the section of its loop
Tagged(pairs, title, section) ==
    [i \in 1..Len(pairs) |-> <<pairs[i][1], pairs[i][2], title, section>>]

\* scrape_tournament has returned: all_rows.extend(rows), next tournament
EndTournament(s, rows) ==
    [s EXCEPT !.all_rows = @ \o rows,
              !.rows = <<>>,
              !.t = @ + 1,
              !.pc = IF s.t + 1 > Len(s.tournaments) THEN "write" ELSE "results"]

\* scrape_tournament after the /results page arrived
AfterResults(s, body) ==
    [s EXCEPT !.rows = KeepRows(parse_player_avgs(body),
                                s.tournaments[s.t][1], "matches"),
              !.pairs = @ \o Tagged(parse_player_avgs(body),
                                    s.tournaments[s.t][1], "matches"),
              !.pc = "groups"]

\* group_links: the hrefs with "/group/", deduplicated in order
group_links_of(hrefs) == Dedup(hrefs)

\* scrape_tournament after the /groups page arrived
AfterGroups(s, body) ==
    LET links == group_links_of(body)
    IN  IF links = <<>> THEN EndTournament(s, s.rows)
        ELSE [s EXCEPT !.group_links = links, !.g = 1, !.pc = "group"]

\* scrape_tournament after the page of group g arrived
AfterGroup(s, body) ==
    LET rows == s.rows \o KeepRows(parse_player_avgs(body),
                                   s.tournaments[s.t][1], "groups")
        seen == [s EXCEPT !.pairs = @ \o Tagged(parse_player_avgs(body),
                                                s.tournaments[s.t][1], "groups")]
    IN  IF s.g + 1 > Len(s.group_links) THEN EndTournament(seen, rows)
        ELSE [seen EXCEPT !.rows = rows, !.g = @ + 1]

\* a fetch raised: nothing catches it, it propagates out of main
FetchFailSkipsRegion(s) == [s EXCEPT !.pc = "write"]
FetchFail(s) == [s EXCEPT !.pc = "fetch_failed"]

-----------------------------------------------------------------------------
(* run_scrapers.main: every region, then one email                         *)

\* configs[i]: (season_url, report_path) of region i
season_url(i) == <<"season", i>>
report_path(i) == <<"report", i>>

\* yorkshire.REPORT_PATH
REPORT_PATH == <<"yorkshire.txt">>

\* a file left by an earlier run
Stale == <<<<"stale">>>>

RunStart ==
    [pc |-> "load", r |-> 1, tournaments |-> <<>>, t |-> 1, all_rows |-> <<>>,
     rows |-> <<>>, pairs |-> <<>>, group_links |-> <<>>, g |-> 1]

\* collect_yesterday_tournaments returned: all_rows = [], the tournament loop
AfterCollect(s, tournaments) ==
    [s EXCEPT !.tournaments = tournaments, !.t = 1, !.all_rows = <<>>,
              !.pairs = <<>>,
              !.pc = IF tournaments = <<>> THEN "write" ELSE "results"]

\* [LOAD]: collect_yesterday_tournaments(season_url, ...)
Load ==
    /\ run.pc = "load"
    /\ fetched' = fetched \cup {<<run.r, "listing">>}
    /\ \E resp \in Responses(RunListings) :
          IF resp.ok
          THEN /\ run' = AfterCollect(run, collect_doc(resp.body))
               /\ UNCHANGED failedAt
          ELSE /\ run' = FetchFail(run)
               /\ failedAt' = run.r
    /\ UNCHANGED <<york, fs, written, emails, scanVars, reportVars>>

\* [SCRAPE]: http_get(base + "/results")
Results ==
    /\ run.pc = "results"
    /\ fetched' = fetched \cup {<<run.r, "results">>}
    /\ \E resp \in Responses(AvgPages) :
          IF resp.ok
          THEN /\ run' = AfterResults(run, resp.body)
               /\ UNCHANGED failedAt
          ELSE /\ run' = FetchFail(run)
               /\ failedAt' = run.r
    /\ UNCHANGED <<york, fs, written, emails, scanVars, reportVars>>

\* http_get(base + "/groups")
Groups ==
    /\ run.pc = "groups"
    /\ fetched' = fetched \cup {<<run.r, "groups">>}
    /\ \E resp \in Responses(GroupIndexPages) :
          IF resp.ok
          THEN /\ run' = AfterGroups(run, resp.body)
               /\ UNCHANGED failedAt
          ELSE /\ run' = FetchFail(run)
               /\ failedAt' = run.r
    /\ UNCHANGED <<york, fs, written, emails, scanVars, reportVars>>

\* http_get(gl) for the next group link
Group ==
    /\ run.pc = "group"
    /\ fetched' = fetched \cup {<<run.r, "group">>}
    /\ \E resp \in Responses(AvgPages) :
          IF resp.ok
          THEN /\ run' = AfterGroup(run, resp.body)
               /\ UNCHANGED failedAt
          ELSE /\ run' = FetchFail(run)
               /\ failedAt' = run.r
    /\ UNCHANGED <<york, fs, written, emails, scanVars, reportVars>>

\* os.makedirs, write_report(report_path, all_rows), [DONE]; next region
Write ==
    /\ run.pc = "write"
    /\ \E f \in write_report_rs(run.all_rows) :
          /\ fs' = [fs EXCEPT ![report_path(run.r)] = Some(f)]
          /\ written' = Append(written, <<report_path(run.r), f>>)
    /\ run' = [run EXCEPT !.r = @ + 1,
                          !.pc = IF run.r = NumRegions THEN "email" ELSE "load"]
    /\ UNCHANGED <<york, fetched, failedAt, emails, scanVars, reportVars>>

\* "Attach any report files that exist": one attachment per config, in order
RECURSIVE AttachmentsFrom(_, _)
AttachmentsFrom(i, files) ==
    IF i > NumRegions THEN <<>>
    ELSE (IF files[report_path(i)] = None THEN <<>>
          ELSE << [filename |-> report_path(i),
                   content |-> files[report_path(i)][1]] >>)
         \o AttachmentsFrom(i + 1, files)

AttachmentsWithRows(files) ==
    SelectSeq(AttachmentsFrom(1, files), LAMBDA a : Len(a.content) > 1)

Attachments(files) == AttachmentsFrom(1, files)

\* compose the message, attach, smtp.send_message: sent, or SMTP raised
Email ==
    /\ run.pc = "email"
    /\ \E sent \in BOOLEAN :
          IF sent
          THEN /\ emails' = Append(emails,
                     [subject |-> <<"Darts high-average results for", Yesterday>>,
                      attachments |-> Attachments(fs)])
               /\ run' = [run EXCEPT !.pc = "done"]
          ELSE /\ UNCHANGED emails
               /\ run' = [run EXCEPT !.pc = "send_failed"]
    /\ UNCHANGED <<york, fs, written, fetched, failedAt, scanVars, reportVars>>

RegionPaths == {report_path(i) : i \in 1..NumRegions}

InitRun ==
    /\ run = RunStart
    /\ york = Idle
    /\ fs \in [RegionPaths -> {None, Some(Stale)}]
    /\ written = <<>> /\ fetched = {} /\ failedAt = 0 /\ emails = <<>>
    /\ ScanIdle /\ ReportIdle

NextRun == Load \/ Results \/ Groups \/ Group \/ Write \/ Email

SpecRun == InitRun /\ [][NextRun]_vars

-----------------------------------------------------------------------------
(* yorkshire.main: one region, no email                                    *)

YorkStart ==
    [pc |-> "collect", tournaments |-> <<>>, t |-> 1, all_rows |-> <<>>,
     rows |-> <<>>, pairs |-> <<>>, group_links |-> <<>>, g |-> 1]

\* "if not tournaments: return", else all_rows = [] and the tournament loop
YorkAfterCollect(s, tournaments) ==
    [s EXCEPT !.tournaments = tournaments, !.t = 1, !.all_rows = <<>>,
              !.pairs = <<>>,
              !.pc = IF tournaments = <<>> THEN "done" ELSE "results"]

\* collect_yesterday_tournaments(driver, ...): driver.get, wait, scan
YorkCollect ==
    /\ york.pc = "collect"
    /\ fetched' = fetched \cup {<<1, "listing">>}
    /\ \E resp \in Responses(YorkListings) :
          IF resp.ok
          THEN /\ york' = YorkAfterCollect(york, collect_prox(resp.body))
               /\ UNCHANGED failedAt
          ELSE /\ york' = FetchFail(york)
               /\ failedAt' = 1
    /\ UNCHANGED <<run, fs, written, emails, scanVars, reportVars>>

\* scrape_text(driver, base + "/results")
YorkResults ==
    /\ york.pc = "results"
    /\ fetched' = fetched \cup {<<1, "results">>}
    /\ \E resp \in Responses(AvgPages) :
          IF resp.ok
          THEN /\ york' = AfterResults(york, resp.body)
               /\ UNCHANGED failedAt
          ELSE /\ york' = FetchFail(york)
               /\ failedAt' = 1
    /\ UNCHANGED <<run, fs, written, emails, scanVars, reportVars>>

\* driver.get(base + "/groups"), the group links
YorkGroups ==
    /\ york.pc = "groups"
    /\ fetched' = fetched \cup {<<1, "groups">>}
    /\ \E resp \in Responses(GroupIndexPages) :
          IF resp.ok
          THEN /\ york' = AfterGroups(york, resp.body)
               /\ UNCHANGED failedAt
          ELSE /\ york' = FetchFail(york)
               /\ failedAt' = 1
    /\ UNCHANGED <<run, fs, written, emails, scanVars, reportVars>>

\* scrape_text(driver, gl) for the next group link
YorkGroup ==
    /\ york.pc = "group"
    /\ fetched' = fetched \cup {<<1, "group">>}
    /\ \E resp \in Responses(AvgPages) :
          IF resp.ok
          THEN /\ york' = AfterGroup(york, resp.body)
               /\ UNCHANGED failedAt
          ELSE /\ york' = FetchFail(york)
               /\ failedAt' = 1
    /\ UNCHANGED <<run, fs, written, emails, scanVars, reportVars>>

\* write_report(all_rows), then main returns
YorkWrite ==
    /\ york.pc = "write"
    /\ fs' = [fs EXCEPT ![REPORT_PATH] = Some(write_report_york(york.all_rows))]
    /\ written' = Append(written,
                         <<REPORT_PATH, write_report_york(york.all_rows)>>)
    /\ york' = [york EXCEPT !.pc = "done"]
    /\ UNCHANGED <<run, fetched, failedAt, emails, scanVars, reportVars>>

InitYork ==
    /\ run = Idle
    /\ york = YorkStart
    /\ fs \in [{REPORT_PATH} -> {None, Some(Stale)}]
    /\ written = <<>> /\ fetched = {} /\ failedAt = 0 /\ emails = <<>>
    /\ ScanIdle /\ ReportIdle

NextYork == YorkCollect \/ YorkResults \/ YorkGroups \/ YorkGroup \/ YorkWrite

SpecYork == InitYork /\ [][NextYork]_vars

-----------------------------------------------------------------------------
(* What the listing says, stated on the cards                              *)

ValidAt(cards, k) == is_valid_tournament_path(cards[k].link.href)
UrlAt(cards, k) == full_url(cards[k].link.href)

\* the date line that most recently precedes link k in document order
DocDateAt(cards, k) ==
    LET J == {j \in 1..k : cards[j].date # None}
    IN  IF J = {} THEN None
        ELSE cards[CHOOSE j \in J : \A h \in J : h <= j].date

\* a card has no date for its link when it holds no date line or when the
\* date line sits more than 25 parents above the link
NoCardDate(c) == c.date = None \/ c.levels > MaxLevels

\* the date of the card that encloses link k
ProxDateAt(cards, k) == IF NoCardDate(cards[k]) THEN None ELSE cards[k].date

DocTitleAt(cards, k) == DocTitle(AnchorNode(cards[k]))
ProxTitleAt(cards, k) == ProxTitle(AnchorNode(cards[k]))

Least(S) == CHOOSE k \in S : \A h \in S : k <= h
LeastOrZero(S) == IF S = {} THEN 0 ELSE Least(S)

\* link k is a tournament link dated the target day
TargetAt(cards, k, DateAt(_, _)) ==
    ValidAt(cards, k) /\ DateAt(cards, k) = Some(Yesterday)

\* link k is a tournament link dated before the target day
OlderAt(cards, k, DateAt(_, _)) ==
    /\ ValidAt(cards, k)
    /\ DateAt(cards, k) # None
    /\ DateAt(cards, k)[1] < Yesterday

\* the first target-day occurrences of each URL among links 1..n, in order
FirstTargets(cards, n, DateAt(_, _)) ==
    {k \in 1..n :
        /\ TargetAt(cards, k, DateAt)
        /\ \A j \in 1..(k - 1) :
              ~(TargetAt(cards, j, DateAt) /\ UrlAt(cards, j) = UrlAt(cards, k))}

Ascending(S) ==
    CHOOSE f \in [1..Cardinality(S) -> S] :
        \A i, j \in 1..Cardinality(S) : i < j => f[i] < f[j]

ExpectedRefs(cards, n, DateAt(_, _), TitleAt(_, _)) ==
    LET idx == Ascending(FirstTargets(cards, n, DateAt))
    IN  [i \in 1..Len(idx) |-> <<TitleAt(cards, idx[i]), UrlAt(cards, idx[i])>>]

IsPrefix(s, t) == Len(s) <= Len(t) /\ SubSeq(t, 1, Len(s)) = s

Contains(s, e) == \E i \in 1..Len(s) : s[i] = e

\* the first tournament link dated before the target day that follows a
\* target-day tournament link (0 when there is none)
DocStopAt(cards) ==
    LeastOrZero({k \in 1..Len(cards) :
        /\ OlderAt(cards, k, DocDateAt)
        /\ \E j \in 1..(k - 1) : TargetAt(cards, j, DocDateAt)})

\* the first tournament link that is dated before the target day or has no
\* card date (0 when there is none)
ProxStopAt(cards) ==
    LeastOrZero({k \in 1..Len(cards) :
        /\ ValidAt(cards, k)
        /\ (NoCardDate(cards[k]) \/ OlderAt(cards, k, ProxDateAt))})

UpTo(cards, stop) == IF stop = 0 THEN Len(cards) ELSE stop - 1

-----------------------------------------------------------------------------
(* C1 *)

\* C1: every (title, URL) pair in the result of either strategy comes from a
\* tournament-shaped link whose associated date is the target day; links
\* dated today, later, earlier, or with no date are never in the result.
C1_OnlyTargetDay ==
    /\ \A i \in 1..Len(doc.results) :
          \E k \in 1..Len(page) :
              /\ TargetAt(page, k, DocDateAt)
              /\ doc.results[i] = <<DocTitleAt(page, k), UrlAt(page, k)>>
    /\ \A i \in 1..Len(prox.results) :
          \E k \in 1..Len(page) :
              /\ TargetAt(page, k, ProxDateAt)
              /\ prox.results[i] = <<ProxTitleAt(page, k), UrlAt(page, k)>>

\* both scans returned a target-day entry from a page that also links a
\* tournament dated today and one dated later than today
C1_Witness ==
    /\ doc.pc = "returned" /\ prox.pc = "returned"
    /\ doc.results # <<>> /\ prox.results # <<>>
    /\ \E k \in 1..Len(page) :
          ValidAt(page, k) /\ DocDateAt(page, k) = Some(Today)
    /\ \E k \in 1..Len(page) :
          ValidAt(page, k) /\ DocDateAt(page, k) = Some(Today + 1)

-----------------------------------------------------------------------------
(* C2 *)

\* the listing of the example: dated [target+1, target, target, target-1],
\* the last three links being tournaments, the two target-day ones distinct
IsExampleListing ==
    /\ Len(page) = 4
    /\ [k \in 1..4 |-> page[k].date]
          = <<Some(Today), Some(Yesterday), Some(Yesterday), Some(Yesterday - 1)>>
    /\ \A k \in 2..4 : ValidAt(page, k)
    /\ UrlAt(page, 2) # UrlAt(page, 3)

\* C2: the document-order scan ends at the first tournament link dated before
\* the target day that follows a recorded target-day match: its result is the
\* target-day entries before that link and nothing at or after it, an older
\* link before any match does not stop it, and the example listing
\* [target+1, target, target, target-1] yields exactly its two target entries.
C2_StopsAtFirstOlderAfterMatch ==
    doc.pc = "returned" =>
        LET stop == DocStopAt(page)
        IN  /\ doc.results
                 = ExpectedRefs(page, UpTo(page, stop), DocDateAt, DocTitleAt)
            /\ doc.i = IF stop = 0
                       THEN Len(Nodes(page)) + 1
                       ELSE Len(Nodes(SubSeq(page, 1, stop)))
            /\ IsExampleListing =>
                  /\ stop = 4
                  /\ doc.results
                        = << <<DocTitleAt(page, 2), UrlAt(page, 2)>>,
                             <<DocTitleAt(page, 3), UrlAt(page, 3)>> >>

\* the example listing has been scanned and the scan stopped at its last link
C2_Witness ==
    /\ doc.pc = "returned"
    /\ IsExampleListing
    /\ Len(doc.results) = 2
    /\ doc.i = 8

-----------------------------------------------------------------------------
(* C3 *)

\* both strategies associate every tournament link with the same date
SameDates(cards) ==
    \A k \in 1..Len(cards) :
        ValidAt(cards, k) =>
            /\ DocDateAt(cards, k) # None
            /\ DocDateAt(cards, k) = ProxDateAt(cards, k)

\* a target-day tournament link precedes the first older one, or none is older
MatchBeforeOlder(cards) ==
    LET older == ProxStopAt(cards)
    IN  older = 0 \/ \E j \in 1..(older - 1) : TargetAt(cards, j, ProxDateAt)

-----------------------------------------------------------------------------
(* C4 *)

\* the proximity scan reached a tournament link that has no card date
ReachedUndated ==
    /\ ProxStopAt(page) # 0
    /\ NoCardDate(page[ProxStopAt(page)])

\* C4 as stated: when the proximity scan meets a tournament link with no date
\* within 25 enclosing containers it reports zero results for the page, with
\* a diagnostic.
C4_ZeroResults ==
    (prox.pc = "returned" /\ ReachedUndated) =>
        /\ Contains(prox.log, "STOP_NO_DATE")
        /\ prox.results = <<>>

\* C4, amended: when the proximity scan meets a tournament link with no date
\* within 25 enclosing containers it stops at that link with a diagnostic and
\* returns the target-day entries collected before it (zero results only when
\* none was collected); the diagnostic is given in no other case, and the
\* scan returns to its caller.
C4_StopsKeepingCollected ==
    /\ (prox.pc \in {"end", "returned"} /\ ReachedUndated) =>
          /\ Contains(prox.log, "STOP_NO_DATE")
          /\ prox.i = Len(Anchors(SubSeq(page, 1, ProxStopAt(page))))
          /\ prox.results
                = ExpectedRefs(page, ProxStopAt(page) - 1, ProxDateAt, ProxTitleAt)
    /\ Contains(prox.log, "STOP_NO_DATE") => ReachedUndated
    /\ prox.pc = "end" => ENABLED ProxReturn

\* the scan returned a target-day entry collected before a link with no date
C4_Witness ==
    /\ prox.pc = "returned"
    /\ ReachedUndated
    /\ Contains(prox.log, "STOP_NO_DATE")
    /\ prox.results # <<>>

-----------------------------------------------------------------------------
(* C8 *)

NoDupUrls(rs) == \A i, j \in 1..Len(rs) : i # j => rs[i][2] # rs[j][2]

\* the first target-day link with this URL
FirstTargetOf(cards, url, DateAt(_, _)) ==
    LeastOrZero({k \in 1..Len(cards) :
        TargetAt(cards, k, DateAt) /\ UrlAt(cards, k) = url})

FirstWins(rs, cards, DateAt(_, _), TitleAt(_, _)) ==
    /\ \A i \in 1..Len(rs) :
          LET k == FirstTargetOf(cards, rs[i][2], DateAt)
          IN  k # 0 /\ rs[i][1] = TitleAt(cards, k)
    /\ \A i, j \in 1..Len(rs) :
          i < j => FirstTargetOf(cards, rs[i][2], DateAt)
                       < FirstTargetOf(cards, rs[j][2], DateAt)

\* C8: the result of either strategy never holds one URL twice; each entry is
\* the one of the first target-day occurrence of its URL, and the entries are
\* in the order of those first occurrences.
C8_DedupFirstWins ==
    /\ NoDupUrls(doc.results)
    /\ NoDupUrls(prox.results)
    /\ FirstWins(doc.results, page, DocDateAt, DocTitleAt)
    /\ FirstWins(prox.results, page, ProxDateAt, ProxTitleAt)

\* both scans returned two entries from three target-day tournament links,
\* two of which link the same URL with different link texts
C8_Witness ==
    /\ doc.pc = "returned" /\ prox.pc = "returned"
    /\ Len(doc.results) = 2 /\ Len(prox.results) = 2
    /\ Cardinality({k \in 1..Len(page) : TargetAt(page, k, ProxDateAt)}) = 3
    /\ \E j, k \in 1..Len(page) :
          /\ j < k
          /\ UrlAt(page, j) = UrlAt(page, k)
          /\ page[j].link.text # page[k].link.text

-----------------------------------------------------------------------------
(* C9 *)

\* no two distinct rows have the same average value
NoTies(rows) ==
    \A r1, r2 \in ToSet(rows) : r1 # r2 => r1[1] # r2[1]

\* C9 as stated: writing the same row set twice, rows that tie on value,
\* another order and repeats included, produces identical files.
C9_SameFileTwice ==
    Len(outputs) = 2 => outputs[1] = outputs[2]

\* C9, amended: writing the same row set twice produces identical files, in
\* any order of supply and with repeats, provided no two distinct rows tie on
\* average value; yorkshire's writer also does when it is handed the same
\* list of rows twice, ties or not.  Rows that tie are written in the order
\* of supply (yorkshire) or of set iteration (run_scrapers).
C9_SameFileWithoutTies ==
    Len(outputs) = 2 =>
        /\ NoTies(supply[1]) => outputs[1] = outputs[2]
        /\ (writer = "yorkshire" /\ supply[1] = supply[2])
              => outputs[1] = outputs[2]

\* two distinct rows without a tie, handed over in two different orders, once
\* with a repeat, were written to the same file twice
C9_Witness ==
    /\ Len(outputs) = 2
    /\ NoTies(supply[1])
    /\ Cardinality(ToSet(supply[1])) = 2
    /\ Len(supply[1]) # Len(supply[2])
    /\ supply[1][1] # supply[2][1]
    /\ outputs[1] = outputs[2]

-----------------------------------------------------------------------------
(* C10 *)

\* the average a data line starts with, read back from its two-decimal text
ValueOfLine(l) ==
    CHOOSE v \in {r[1] : r \in ReportRows} : SubSeq(l, 1, 4) = Fmt2(v)

\* C10: the data rows of a written report are the distinct input tuples, each
\* once, in non-increasing order of average value, after the header line.
C10_DistinctRowsSortedDesc ==
    \A k \in 1..Len(outputs) :
        LET data == Tail(outputs[k])
            rows == ToSet(supply[k])
        IN  /\ Head(outputs[k]) = Header
            /\ Len(data) = Cardinality(rows)
            /\ ToSet(data) = {Line(r) : r \in rows}
            /\ \A i, j \in 1..Len(data) :
                  i < j => ValueOfLine(data[i]) >= ValueOfLine(data[j])

\* three rows, two of them identical and the third differing from them in the
\* value only, were written as two data rows
C10_Witness ==
    /\ Len(outputs) >= 1
    /\ Len(supply[1]) = 3
    /\ Len(Tail(outputs[1])) = 2
    /\ \E r1, r2 \in ToSet(supply[1]) :
          r1[1] < r2[1] /\ r1[2] = r2[2] /\ r1[4] = r2[4]

-----------------------------------------------------------------------------
(* C5 *)

\* the lines a path holds were written by a write_report call of this run
FreshAt(path) ==
    /\ fs[path] # None
    /\ \E k \in 1..Len(written) :
          written[k][1] = path /\ fs[path] = Some(written[k][2])

\* C5: when the processing of a region completes without a transport failure
\* its report file exists, written in this run, and it is the header line
\* alone when no tournament was found or no row qualified.  Stated of
\* yorkshire.main, whose region is done when main returns.
C5_ReportAlwaysWritten ==
    (york.pc = "done" /\ failedAt = 0) =>
        /\ FreshAt(REPORT_PATH)
        /\ york.all_rows = <<>> => fs[REPORT_PATH] = Some(<<Header>>)

-----------------------------------------------------------------------------
(* C6 *)

\* C6: once a fetch of region i has met a transport failure, the run is over:
\* reports were written for the regions before i only and stay as written,
\* the files of region i and of the later regions are as the run found them,
\* no page of a later region was requested, and no email was sent.
C6_TransportFailureIsFatal ==
    failedAt # 0 =>
        /\ run.pc = "fetch_failed"
        /\ run.r = failedAt
        /\ Len(written) = failedAt - 1
        /\ \A j \in 1..(failedAt - 1) :
              /\ written[j][1] = report_path(j)
              /\ fs[report_path(j)] = Some(written[j][2])
        /\ \A j \in failedAt..NumRegions :
              fs[report_path(j)] \in {None, Some(Stale)}
        /\ \A f \in fetched : f[1] <= failedAt
        /\ emails = <<>>

\* the page of a group of the second region could not be fetched, after the
\* report of the first region had been written
C6_Witness ==
    /\ failedAt = 2
    /\ run.pc = "fetch_failed"
    /\ <<2, "group">> \in fetched
    /\ Len(written) = 1
    /\ fs[report_path(1)] = Some(written[1][2])

-----------------------------------------------------------------------------
(* C7 *)

\* the regions whose listing held a target-day tournament
RegionsWithTournament == {f[1] : f \in {g \in fetched : g[2] = "results"}}

\* C7: at most one email is sent in a run and exactly one in a run that
\* completes; it is sent after the report of every region has been written
\* and carries one attachment per region config, the report file at its
\* path; when only one region has a target-day tournament the other files
\* attached are the header line alone.
C7_OneEmailAllReports ==
    /\ Len(emails) <= 1
    /\ run.pc = "done" => Len(emails) = 1
    /\ Len(emails) = 1 =>
          /\ Len(written) = NumRegions
          /\ \A i \in 1..NumRegions : FreshAt(report_path(i))
          /\ emails[1].attachments
                = [i \in 1..NumRegions |->
                      [filename |-> report_path(i),
                       content |-> fs[report_path(i)][1]]]
          /\ \A i \in 1..NumRegions :
                i \notin RegionsWithTournament
                    => emails[1].attachments[i].content = <<Header>>

\* a run of three or more regions completed: the first region alone had a
\* target-day tournament and its report has a data row, and the one email
\* carries an attachment per region
C7_Witness ==
    /\ run.pc = "done"
    /\ RegionsWithTournament = {1}
    /\ Len(emails) = 1
    /\ Len(emails[1].attachments) = NumRegions
    /\ Len(emails[1].attachments[1].content) > 1
    /\ \A i \in 2..NumRegions : emails[1].attachments[i].content = <<Header>>

-----------------------------------------------------------------------------
(* C11 *)

\* the averages the modelled result and group pages show
PageValues == UNION {{m.v1, m.v2} : m \in UNION {ToSet(p) : p \in AvgPages}}

\* the average a data line of a report starts with
ParseValue(l) == CHOOSE v \in PageValues : SubSeq(l, 1, 4) = Fmt2(v)

\* the rows of the pairs whose average is at least 85.00, in order
Retained(pairs) ==
    LET keep == SelectSeq(pairs, LAMBDA p : p[2] >= 8500)
    IN  [i \in 1..Len(keep) |->
            <<keep[i][2], keep[i][1], keep[i][3], keep[i][4]>>]

\* the rows a scraper holds are those of the pairs it has extracted in the
\* region that reach 85.00
KeepsFromThreshold(s) ==
    "pairs" \in DOMAIN s => s.all_rows \o s.rows = Retained(s.pairs)

\* the report written last holds a line for each retained pair of the region
LastReportOf(s) ==
    ToSet(Tail(written[Len(written)][2])) = {Line(r) : r \in ToSet(Retained(s.pairs))}

\* C11: scrape_tournament keeps an extracted (player, average) pair if and
\* only if its average is at least 85.00, whether the pair comes from the
\* results page or from a group page: the rows collected are, in order, the
\* rows of exactly those pairs.  Hence the data lines of a report are the
\* lines of those rows and each starts with a value of at least 85.00.
C11_KeepsIffAtLeastThreshold ==
    /\ KeepsFromThreshold(run)
    /\ KeepsFromThreshold(york)
    /\ (run.pc \in {"load", "email"} /\ written # <<>>) => LastReportOf(run)
    /\ (york.pc = "done" /\ written # <<>>) => LastReportOf(york)
    /\ \A k \in 1..Len(written) :
          \A i \in 1..Len(Tail(written[k][2])) :
              ParseValue(Tail(written[k][2])[i]) >= 8500

\* the results page and the group page of the first region's tournament both
\* showed Alice at 85.00 and Bob at 84.99; the report written for the region
\* holds Alice's two lines and none of Bob's
C11_Witness ==
    /\ run.pc = "load" /\ run.r = 2
    /\ Len(written) = 1
    /\ \E title \in {run.tournaments[t][1] : t \in 1..Len(run.tournaments)} :
          /\ run.pairs = << <<"Alice", 8500, title, "matches">>,
                            <<"Bob", 8499, title, "matches">>,
                            <<"Alice", 8500, title, "groups">>,
                            <<"Bob", 8499, title, "groups">> >>
          /\ ToSet(Tail(written[1][2])) =
                {<<"85", ".", "0", "0", ",", "Alice", ",">> \o title \o <<",", sec>> :
                    sec \in {"matches", "groups"}}
          /\ Len(written[1][2]) = 3

====
